---- MODULE Spec2Model ----
(***************************************************************************)
(* HNSearchTool::call (src/src/main.rs, lines 95-193): the search over a   *)
(* Hacker News story list.  One behaviour is one call: the category is     *)
(* resolved, the id list is fetched, the list is scanned under the ceiling *)
(* MAX_STORIES_TO_SEARCH and the result cap, the comments of each match    *)
(* are fetched, and the call returns Ok(results) or an HNError.            *)
(*                                                                         *)
(* Text is a sequence of one-character strings.  The remote API is the     *)
(* variable remote: the kind of item behind each id of the fetched list.   *)
(***************************************************************************)
EXTENDS Integers, Sequences, FiniteSets, TLC

VARIABLES
    query,             \* args.query
    story_type,        \* args.story_type : Option<String>
    arg_max_results,   \* args.max_results : Option<i32>
    pc,                \* position in call
    max_results,       \* the local max_results : usize (four 16-bit limbs)
    stories_endpoint,  \* the list endpoint chosen by the match
    story_ids,         \* the decoded id list
    remote,            \* remote[i] : the kind of item the API serves for id i
    search_terms,
    results,
    stories_processed,
    stories_searched,
    iter,              \* number of ids the for loop has taken from story_ids
    story,             \* the matching story whose comments are being fetched
    comments,
    kid_iter,          \* number of ids the inner loop has taken from kids
    outcome,           \* the value call returns
    listOk,            \* history: the list request returned a decoded list
    listReqs,          \* history: list endpoints requested
    storyReqs,         \* history: story ids requested, in order
    commentReqs        \* history: <<story id, comment id>> requested, in order

vars == <<query, story_type, arg_max_results, pc, max_results, stories_endpoint,
          story_ids, remote, search_terms, results, stories_processed,
          stories_searched, iter, story, comments, kid_iter, outcome,
          listOk, listReqs, storyReqs, commentReqs>>

(***************************************************************************)
(* Bounds of the model.                                                    *)
(***************************************************************************)
\* id lists of length 0..ShortLen hold every combination of item kinds
ShortLen == 2
\* long id lists have length MAX_STORIES_TO_SEARCH .. MAX_STORIES_TO_SEARCH + Over
Over == 1

(***************************************************************************)
(* Option<T>                                                               *)
(***************************************************************************)
None == [some |-> FALSE]
Some(x) == [some |-> TRUE, v |-> x]

(***************************************************************************)
(* Program constants                                                       *)
(***************************************************************************)
MAX_STORIES_TO_SEARCH == 100

\* usize is 64 bits wide; a value is kept as four 16-bit limbs, most
\* significant first
LimbBase == 65536

\* `as usize` of an i32: sign extension to 64 bits
AsUsize(i) ==
    LET sign == IF i < 0 THEN LimbBase - 1 ELSE 0
    IN  <<sign, sign, (i \div LimbBase) % LimbBase, i % LimbBase>>

\* args.max_results.unwrap_or(5) as usize
UnwrapMaxResults(opt) == AsUsize(IF opt.some THEN opt.v ELSE 5)

\* a >= b on usize, a a small count and b in limbs
UsizeGe(a, b) ==
    LET l == AsUsize(a)
        RECURSIVE Ge(_)
        Ge(k) == IF k > 4 THEN TRUE
                 ELSE IF l[k] # b[k] THEN l[k] > b[k]
                 ELSE Ge(k + 1)
    IN  Ge(1)

(***************************************************************************)
(* Text                                                                    *)
(***************************************************************************)
Lower(c) ==
    CASE c = "A" -> "a" [] c = "B" -> "b" [] c = "G" -> "g" [] c = "O" -> "o"
      [] c = "R" -> "r" [] c = "U" -> "u" [] c = "Z" -> "z"
      [] OTHER -> c

ToLowercase(s) == [i \in 1..Len(s) |-> Lower(s[i])]

IsWhitespace(c) == c = " "

\* str::split_whitespace: the maximal runs of non-whitespace, in order
RECURSIVE SplitFrom(_, _, _)
SplitFrom(s, i, cur) ==
    IF i > Len(s) THEN (IF cur = <<>> THEN <<>> ELSE <<cur>>)
    ELSE IF IsWhitespace(s[i])
         THEN (IF cur = <<>> THEN <<>> ELSE <<cur>>) \o SplitFrom(s, i + 1, <<>>)
         ELSE SplitFrom(s, i + 1, Append(cur, s[i]))

SplitWhitespace(s) == SplitFrom(s, 1, <<>>)

\* str::contains
Contains(hay, needle) ==
    \E i \in 0..(Len(hay) - Len(needle)) :
        SubSeq(hay, i + 1, i + Len(needle)) = needle

SearchTerms(q) == SplitWhitespace(ToLowercase(q))

StoryText(s) ==
    ToLowercase(s.title) \o <<" ">>
        \o ToLowercase(IF s.text.some THEN s.text.v ELSE <<>>) \o <<" ">>
        \o ToLowercase(s.by)

MatchesCaseSensitive(s, terms) ==
    LET raw == s.title \o <<" ">> \o (IF s.text.some THEN s.text.v ELSE <<>>)
                   \o <<" ">> \o s.by
    IN  \E k \in 1..Len(terms) : Contains(raw, terms[k])

Matches(s, terms) ==
    \E k \in 1..Len(terms) : Contains(StoryText(s), terms[k])

(***************************************************************************)
(* Category resolution                                                     *)
(***************************************************************************)
StoriesEndpointJobAsShow(token) ==
    IF ~token.some THEN Some("topstories")
    ELSE CASE token.v = "top"  -> Some("topstories")
           [] token.v = "best" -> Some("beststories")
           [] token.v = "new"  -> Some("newstories")
           [] token.v = "ask"  -> Some("askstories")
           [] token.v = "show" -> Some("showstories")
           [] token.v = "job"  -> Some("showstories")
           [] OTHER -> None

\* Some(endpoint), or None for the early return of the invalid-type error
StoriesEndpoint(token) ==
    IF ~token.some THEN Some("topstories")
    ELSE CASE token.v = "top"  -> Some("topstories")
           [] token.v = "best" -> Some("beststories")
           [] token.v = "new"  -> Some("newstories")
           [] token.v = "ask"  -> Some("askstories")
           [] token.v = "show" -> Some("showstories")
           [] token.v = "job"  -> Some("jobstories")
           [] OTHER -> None

(***************************************************************************)
(* The remote API                                                          *)
(***************************************************************************)
\* What the API serves for an item.  send: "ok", or "down" (send() fails).
\* json: "ok", or "broken" (json() fails: the body cannot be read or does
\* not decode).  kids: the outcome of fetching each child, in order.
Kinds == {"plain", "rust", "ask", "lost", "broken", "down"}

Catalogue(k) ==
    CASE k = "plain" ->
           [send |-> "ok", json |-> "ok", title |-> <<"G", "o">>, text |-> None,
            by |-> <<"b", "o">>, kids |-> None]
      [] k = "rust" ->
           [send |-> "ok", json |-> "ok", title |-> <<"R", "u">>, text |-> None,
            by |-> <<"a", "l">>, kids |-> Some(<<"ok", "broken", "ok", "ok">>)]
      [] k = "ask" ->
           [send |-> "ok", json |-> "ok", title |-> <<"G", "o">>,
            text |-> Some(<<"a", " ", "r", "U">>),
            by |-> <<"a", "l">>, kids |-> Some(<<"broken">>)]
      [] k = "lost" ->
           [send |-> "ok", json |-> "ok", title |-> <<"R", "u">>, text |-> None,
            by |-> <<"b", "o">>, kids |-> Some(<<"ok", "down">>)]
      [] k = "broken" ->
           [send |-> "ok", json |-> "broken", title |-> <<"R", "u">>, text |-> None,
            by |-> <<"a", "l">>, kids |-> None]
      [] k = "down" ->
           [send |-> "down", json |-> "ok", title |-> <<"R", "u">>, text |-> None,
            by |-> <<"a", "l">>, kids |-> None]

KidId(id, j) == id * 1000 + j

\* The Story that the item of id decodes to
DecodeStory(id, k) ==
    LET c == Catalogue(k)
    IN  [id |-> id, title |-> c.title, text |-> c.text, by |-> c.by,
         kids |-> IF c.kids.some
                  THEN Some([j \in 1..Len(c.kids.v) |-> KidId(id, j)])
                  ELSE None]

\* The outcome of fetching comment cid, a child of a story of kind k
CommentOutcome(cid, k) == Catalogue(k).kids.v[cid % 1000]

\* The lists an endpoint may return, as the kinds of their items by position.
\* Short lists hold any kinds; long lists hold plain stories around one item
\* of any kind at the last position under the ceiling or the first above it.
\* The top list takes every length; the other lists are kept to 0 or 1 id.
ShortWorlds == UNION {[1..n -> Kinds] : n \in 0..ShortLen}

LongWorlds ==
    {[i \in 1..n |-> IF i = p THEN k ELSE "plain"] :
        n \in MAX_STORIES_TO_SEARCH..(MAX_STORIES_TO_SEARCH + Over),
        p \in {MAX_STORIES_TO_SEARCH, MAX_STORIES_TO_SEARCH + 1},
        k \in Kinds}

Worlds(endpoint) ==
    IF endpoint = "topstories" THEN ShortWorlds \cup LongWorlds
    ELSE {w \in ShortWorlds : Len(w) <= 1}

(***************************************************************************)
(* Inputs                                                                  *)
(***************************************************************************)
Queries ==
    { <<>>,
      <<"R", "u">>,
      <<" ", "z", "z", " ", " ", "B", "O">> }

Tokens ==
    {None} \cup {Some(t) : t \in {"top", "best", "new", "ask", "show", "job",
                                  "", "jobs"}}

MaxResultsArgs == {None} \cup {Some(i) : i \in {-1, 0, 1, 2}}

NoStory == [id |-> 0, title |-> <<>>, text |-> None, by |-> <<>>, kids |-> None]

Init ==
    /\ query \in Queries
    /\ story_type \in Tokens
    /\ arg_max_results \in MaxResultsArgs
    /\ pc = "start"
    /\ max_results = AsUsize(0)
    /\ stories_endpoint = None
    /\ story_ids = <<>>
    /\ remote = <<>>
    /\ search_terms = <<>>
    /\ results = <<>>
    /\ stories_processed = 0
    /\ stories_searched = 0
    /\ iter = 0
    /\ story = NoStory
    /\ comments = <<>>
    /\ kid_iter = 0
    /\ outcome = "none"
    /\ listOk = FALSE
    /\ listReqs = <<>>
    /\ storyReqs = <<>>
    /\ commentReqs = <<>>

(***************************************************************************)
(* The code's conditions                                                   *)
(***************************************************************************)
CeilingReachedOffByOne(searched) == searched > MAX_STORIES_TO_SEARCH

\* if stories_searched >= MAX_STORIES_TO_SEARCH { break; }
CeilingReached(searched) == searched >= MAX_STORIES_TO_SEARCH

\* if stories_processed >= max_results { break; }
CapReached(processed, cap) == UsizeGe(processed, cap)

TakeKidsFour(s) ==
    IF s.kids.some
    THEN SubSeq(s.kids.v, 1, IF Len(s.kids.v) < 4 THEN Len(s.kids.v) ELSE 4)
    ELSE <<>>

\* if let Some(kids) = &story.kids { kids.iter().take(3) }
TakeKids(s) ==
    IF s.kids.some
    THEN SubSeq(s.kids.v, 1, IF Len(s.kids.v) < 3 THEN Len(s.kids.v) ELSE 3)
    ELSE <<>>

EmptyListErrorOk == "Ok"

\* if story_ids.is_empty() { return Err(HNError::NoResults); }
EmptyListError == "NoResults"

\* if results.is_empty() { Err(HNError::NoResults) } else { Ok(results) }
FinalOutcome(res) == IF res = <<>> THEN "NoResults" ELSE "Ok"

(***************************************************************************)
(* Actions                                                                 *)
(***************************************************************************)
\* lines 96-108: the cap, the client, the endpoint
Resolve ==
    /\ pc = "start"
    /\ max_results' = UnwrapMaxResults(arg_max_results)
    /\ IF StoriesEndpoint(story_type).some
       THEN /\ stories_endpoint' = StoriesEndpoint(story_type)
            /\ pc' = "list"
            /\ UNCHANGED outcome
       ELSE /\ outcome' = "ApiError"
            /\ pc' = "done"
            /\ UNCHANGED stories_endpoint
    /\ UNCHANGED <<listOk, query, story_type, arg_max_results, story_ids, remote,
                   search_terms, results, stories_processed, stories_searched,
                   iter, story, comments, kid_iter, listReqs, storyReqs,
                   commentReqs>>

\* lines 110-114: send() or json() of the list request fails; `?` returns
\* HNError::Network
FetchListFails ==
    /\ pc = "list"
    /\ listReqs' = Append(listReqs, stories_endpoint.v)
    /\ outcome' = "Network"
    /\ pc' = "done"
    /\ UNCHANGED <<listOk, query, story_type, arg_max_results, max_results,
                   stories_endpoint, story_ids, remote, search_terms, results,
                   stories_processed, stories_searched, iter, story, comments,
                   kid_iter, storyReqs, commentReqs>>

\* lines 110-130: the list arrives; empty list; terms and counters
FetchList ==
    /\ pc = "list"
    /\ \E w \in Worlds(stories_endpoint.v) :
        /\ remote' = w
        /\ listOk' = TRUE
        /\ story_ids' = [i \in 1..Len(w) |-> i]
        /\ listReqs' = Append(listReqs, stories_endpoint.v)
        /\ IF Len(w) = 0
           THEN /\ outcome' = EmptyListError
                /\ pc' = "done"
                /\ UNCHANGED search_terms
           ELSE /\ search_terms' = SearchTerms(query)
                /\ pc' = "loop"
                /\ UNCHANGED outcome
    /\ UNCHANGED <<query, story_type, arg_max_results, max_results,
                   stories_endpoint, results, stories_processed,
                   stories_searched, iter, story, comments, kid_iter,
                   storyReqs, commentReqs>>

\* lines 132-135 and 188-192: the loop ends (list exhausted or ceiling)
LoopExit ==
    /\ pc = "loop"
    /\ iter = Len(story_ids) \/ CeilingReached(stories_searched)
    /\ outcome' = FinalOutcome(results)
    /\ pc' = "done"
    /\ UNCHANGED <<listOk, query, story_type, arg_max_results, max_results,
                   stories_endpoint, story_ids, remote, search_terms, results,
                   stories_processed, stories_searched, iter, story, comments,
                   kid_iter, listReqs, storyReqs, commentReqs>>

\* lines 132-142: the next id is taken, send() fails, `?` returns
StorySendFails ==
    /\ pc = "loop"
    /\ iter < Len(story_ids)
    /\ ~CeilingReached(stories_searched)
    /\ LET id == story_ids[iter + 1]
       IN  /\ Catalogue(remote[id]).send = "down"
           /\ storyReqs' = Append(storyReqs, id)
    /\ iter' = iter + 1
    /\ stories_searched' = stories_searched + 1
    /\ outcome' = "Network"
    /\ pc' = "done"
    /\ UNCHANGED <<listOk, query, story_type, arg_max_results, max_results,
                   stories_endpoint, story_ids, remote, search_terms, results,
                   stories_processed, story, comments, kid_iter, listReqs,
                   commentReqs>>

\* lines 132-150: the next id is taken, json() fails, warning, continue
StoryJsonFails ==
    /\ pc = "loop"
    /\ iter < Len(story_ids)
    /\ ~CeilingReached(stories_searched)
    /\ LET id == story_ids[iter + 1]
       IN  /\ Catalogue(remote[id]).send = "ok"
           /\ Catalogue(remote[id]).json = "broken"
           /\ storyReqs' = Append(storyReqs, id)
    /\ iter' = iter + 1
    /\ stories_searched' = stories_searched + 1
    /\ UNCHANGED <<listOk, query, story_type, arg_max_results, pc, max_results,
                   stories_endpoint, story_ids, remote, search_terms, results,
                   stories_processed, story, comments, kid_iter, outcome,
                   listReqs, commentReqs>>

\* lines 132-162: the next story is fetched and tested against the terms
FetchStory ==
    /\ pc = "loop"
    /\ iter < Len(story_ids)
    /\ ~CeilingReached(stories_searched)
    /\ LET id == story_ids[iter + 1]
           s  == DecodeStory(id, remote[id])
       IN  /\ Catalogue(remote[id]).send = "ok"
           /\ Catalogue(remote[id]).json = "ok"
           /\ storyReqs' = Append(storyReqs, id)
           /\ IF Matches(s, search_terms)
              THEN /\ story' = s
                   /\ comments' = <<>>
                   /\ kid_iter' = 0
                   /\ pc' = "comments"
              ELSE UNCHANGED <<story, comments, kid_iter, pc>>
    /\ iter' = iter + 1
    /\ stories_searched' = stories_searched + 1
    /\ UNCHANGED <<listOk, query, story_type, arg_max_results, max_results,
                   stories_endpoint, story_ids, remote, search_terms, results,
                   stories_processed, outcome, listReqs, commentReqs>>

\* lines 167-170: send() of a comment request fails, `?` returns
CommentSendFails ==
    /\ pc = "comments"
    /\ kid_iter < Len(TakeKids(story))
    /\ LET cid == TakeKids(story)[kid_iter + 1]
       IN  /\ CommentOutcome(cid, remote[story.id]) = "down"
           /\ commentReqs' = Append(commentReqs, <<story.id, cid>>)
    /\ kid_iter' = kid_iter + 1
    /\ outcome' = "Network"
    /\ pc' = "done"
    /\ UNCHANGED <<listOk, query, story_type, arg_max_results, max_results,
                   stories_endpoint, story_ids, remote, search_terms, results,
                   stories_processed, stories_searched, iter, story, comments,
                   listReqs, storyReqs>>

\* lines 167-176: a comment is fetched: pushed, or warned about and dropped
FetchComment ==
    /\ pc = "comments"
    /\ kid_iter < Len(TakeKids(story))
    /\ LET cid == TakeKids(story)[kid_iter + 1]
           o   == CommentOutcome(cid, remote[story.id])
       IN  /\ o # "down"
           /\ commentReqs' = Append(commentReqs, <<story.id, cid>>)
           /\ comments' = IF o = "ok"
                          THEN Append(comments, [id |-> cid, parent |-> story.id])
                          ELSE comments
    /\ kid_iter' = kid_iter + 1
    /\ UNCHANGED <<listOk, query, story_type, arg_max_results, pc, max_results,
                   stories_endpoint, story_ids, remote, search_terms, results,
                   stories_processed, stories_searched, iter, story, outcome,
                   listReqs, storyReqs>>

\* lines 179-192: the pair is pushed; the cap is tested; on break, the return
PushResult ==
    /\ pc = "comments"
    /\ kid_iter = Len(TakeKids(story))
    /\ results' = Append(results, [story |-> story, comments |-> comments])
    /\ stories_processed' = stories_processed + 1
    /\ IF CapReached(stories_processed', max_results)
       THEN /\ outcome' = FinalOutcome(results')
            /\ pc' = "done"
       ELSE /\ pc' = "loop"
            /\ UNCHANGED outcome
    /\ UNCHANGED <<listOk, query, story_type, arg_max_results, max_results,
                   stories_endpoint, story_ids, remote, search_terms,
                   stories_searched, iter, story, comments, kid_iter,
                   listReqs, storyReqs, commentReqs>>

Next ==
    \/ Resolve
    \/ FetchListFails
    \/ FetchList
    \/ LoopExit
    \/ StorySendFails
    \/ StoryJsonFails
    \/ FetchStory
    \/ CommentSendFails
    \/ FetchComment
    \/ PushResult

Spec == Init /\ [][Next]_vars

\* every remote request returns a response or an error, and the task is polled
FairSpec == Spec /\ WF_vars(Next)

(***************************************************************************)
(* Vocabulary of the properties                                            *)
(***************************************************************************)
\* the cap the caller asked for: max_results, or 5 when it is absent
RequestedCap == IF arg_max_results.some THEN arg_max_results.v ELSE 5

Min(a, b) == IF a < b THEN a ELSE b

\* what the API holds for story id i of the fetched list
RemoteItem(i) == Catalogue(remote[i])
Decodes(i) == RemoteItem(i).send = "ok" /\ RemoteItem(i).json = "ok"

\* story i, once decoded, satisfies the query
RemoteMatches(i) == Matches(DecodeStory(i, remote[i]), SearchTerms(query))

\* a whitespace-separated term of the query, as typed, occurs in the title
TermInTitle(i) ==
    \E k \in 1..Len(SplitWhitespace(query)) :
        Contains(RemoteItem(i).title, SplitWhitespace(query)[k])

\* the lowercase title, body and author of a returned story hold a
\* lowercase query term
HoldsTerm(s) ==
    LET hay   == ToLowercase(s.title \o <<" ">>
                     \o (IF s.text.some THEN s.text.v ELSE <<>>)
                     \o <<" ">> \o s.by)
        terms == SplitWhitespace(ToLowercase(query))
    IN  \E k \in 1..Len(terms) : Contains(hay, terms[k])

ResultIds == [r \in 1..Len(results) |-> results[r].story.id]

IsDecodedMatch(i) == Decodes(i) /\ RemoteMatches(i)

\* the ids among the first n of the list whose story decodes and matches
MatchingPrefix(n) == SelectSeq(SubSeq(story_ids, 1, n), IsDecodedMatch)

CommentReqsOf(id) == {k \in 1..Len(commentReqs) : commentReqs[k][1] = id}

\* the position of an id in the fetched list (its ids are distinct)
PosInList(id) == CHOOSE p \in 1..Len(story_ids) : story_ids[p] = id

\* a returned result follows the list order, and with every item decodable
\* and a cap of at least 1 it is the first min(cap, m) decoded matches
ReturnedInDiscoveryOrder ==
    outcome = "Ok" =>
        /\ \A r \in 1..Len(results) :
               \E p \in 1..Len(story_ids) : story_ids[p] = ResultIds[r]
        /\ \A r1, r2 \in 1..Len(results) :
               r1 < r2 => PosInList(ResultIds[r1]) < PosInList(ResultIds[r2])
        /\ ((\A i \in 1..Len(story_ids) :
                 /\ Decodes(i)
                 /\ RemoteItem(i).kids.some =>
                        \A j \in 1..Min(3, Len(RemoteItem(i).kids.v)) :
                            RemoteItem(i).kids.v[j] = "ok")
            /\ RequestedCap >= 1) =>
               LET all == MatchingPrefix(Min(Len(story_ids), MAX_STORIES_TO_SEARCH))
               IN  ResultIds = SubSeq(all, 1, Min(RequestedCap, Len(all)))

(***************************************************************************)
(* C1: whenever search returns a result, the number of (story, comments)   *)
(* pairs is at most max_results (5 when absent), also for a max_results of *)
(* zero or below.                                                          *)
(***************************************************************************)
C1_ResultCountWithinCap ==
    outcome = "Ok" => Len(results) <= RequestedCap

(***************************************************************************)
(* C2: once the id list has been fetched, no failure of a story or comment *)
(* fetch ends the call: the call ends with a result set or NoResults.      *)
(***************************************************************************)
C2_ItemFailuresSkipped ==
    (pc = "done" /\ listOk) => outcome \in {"Ok", "NoResults"}

(***************************************************************************)
(* C3: the story ids examined are a prefix of the id list, at most         *)
(* MAX_STORIES_TO_SEARCH long, and stories_searched counts them.           *)
(***************************************************************************)
C3_ScanCeiling ==
    /\ Len(storyReqs) <= MAX_STORIES_TO_SEARCH
    /\ Len(storyReqs) <= Len(story_ids)
    /\ storyReqs = SubSeq(story_ids, 1, Len(storyReqs))
    /\ stories_searched = Len(storyReqs)

C3_CeilingHit ==
    /\ pc = "done"
    /\ Len(story_ids) > MAX_STORIES_TO_SEARCH
    /\ Len(storyReqs) = MAX_STORIES_TO_SEARCH

C6_EmptyListNoResults ==
    (listOk /\ story_ids = <<>>)
    => /\ pc = "done"
       /\ outcome = "NoResults"
       /\ storyReqs = <<>>
       /\ commentReqs = <<>>

C6_EmptyListFetched ==
    listOk /\ story_ids = <<>> /\ Len(listReqs) = 1

(***************************************************************************)
(* C7: when no story among the first MAX_STORIES_TO_SEARCH ids matches the *)
(* query, the call ends with NoResults whatever the item fetches do; and   *)
(* NoResults is returned only with an empty accumulated result.            *)
(***************************************************************************)
C7_NoMatchGivesNoResults ==
    /\ (/\ pc = "done"
        /\ listOk
        /\ \A i \in 1..Min(Len(story_ids), MAX_STORIES_TO_SEARCH) :
               ~RemoteMatches(i))
       => outcome = "NoResults"
    /\ outcome = "NoResults" => results = <<>>

(***************************************************************************)
(* C8: an absent token or "top" selects the top list, "best", "new",       *)
(* "ask", "show" and "job" their own lists; any other non-empty token ends *)
(* the call with the invalid-type error before any request is issued.      *)
(***************************************************************************)
C8_CategoryResolution ==
    LET known == {"top", "best", "new", "ask", "show", "job"}
        list  == [t \in known |->
                    CASE t = "top"  -> "topstories"
                      [] t = "best" -> "beststories"
                      [] t = "new"  -> "newstories"
                      [] t = "ask"  -> "askstories"
                      [] t = "show" -> "showstories"
                      [] t = "job"  -> "jobstories"]
        want  == IF story_type.some THEN list[story_type.v] ELSE "topstories"
    IN  IF ~story_type.some \/ story_type.v \in known
        THEN /\ pc # "start" => stories_endpoint = Some(want)
             /\ pc \notin {"start", "list"} => listReqs = <<want>>
             /\ outcome # "ApiError"
        ELSE story_type.v # "" =>
             /\ listReqs = <<>> /\ storyReqs = <<>> /\ commentReqs = <<>>
             /\ pc # "start" => (pc = "done" /\ outcome = "ApiError")

C8_JobListRequested ==
    story_type = Some("job") /\ listReqs = <<"jobstories">> /\ listOk

(***************************************************************************)
(* C9: the returned stories are a subsequence of the id list in list       *)
(* order; when every fetch succeeds and the cap is at least 1 they are the *)
(* first min(cap, m) matching stories of the first MAX_STORIES_TO_SEARCH   *)
(* ids; and no story is fetched once the result count has reached the cap. *)
(***************************************************************************)
C9_DiscoveryOrder ==
    [][ /\ storyReqs' # storyReqs => Len(results) < RequestedCap
        /\ ReturnedInDiscoveryOrder' ]_vars

====
